---- MODULE Spec2Model ----
(***************************************************************************)
(* Model of headfixgui.py: the host-side control panel of a head-fixation  *)
(* rig.  Two execution contexts share the module globals: the Tk main      *)
(* thread (button handlers, one at a time) and the daemon thread running   *)
(* update_serial.  Nothing in the file takes a lock, so the reader thread  *)
(* interleaves with a running handler between statements, and an           *)
(* augmented assignment to totals[...] is a load followed by a store.      *)
(*                                                                         *)
(* Text is modelled as a sequence of symbols (words and the "," symbol):   *)
(* split(","), startswith("EVENT,") and the "phrase in line" tests are     *)
(* computed on that sequence.  float() and int() are finite tables over    *)
(* the numeric words used.  Real numbers are counted in sixteenths, which  *)
(* are exact as binary floats.                                             *)
(*                                                                         *)
(* add_console_log only appends to the log widget, which nothing reads;   *)
(* it is not part of the state.  A ser.write that raises ends its handler  *)
(* there: what the handler assigned before the call stays assigned, and    *)
(* the log line after the call is skipped.                                 *)
(***************************************************************************)
EXTENDS Integers, Sequences, FiniteSets, TLC

VARIABLES
    totals,              \* dict totals (line 23); "time" in sixteenths of a second
    lastRow,             \* texts of table_labels[2][0..5], the last-trial row
    totalsRow,           \* texts of table_labels[1][0..5], the totals row
    fixation,            \* text of fixation_label after "Fixation: "
    struggle,            \* text of struggle_label after "Struggle: "
    session_start_time,  \* global, line 26
    timer_running,       \* global, line 27
    flush_active,        \* global, line 13
    free_reward_enabled, \* global, line 14
    habituation_enabled, \* global, line 15
    axis,                \* fwd_state[0], bkwd_state[0], up_state[0], down_state[0]
    wire,                \* the byte strings ser.write was called with, in call order
    rpc,                 \* reader thread: position in update_serial / update_table
    rk,                  \* reader thread: index of the metric being added or shown
    tmp,                 \* reader thread: value loaded for the pending += store
    line,                \* reader thread: local variable line
    event_data,          \* reader thread: local variable event_data
    inputs,              \* number of lines delivered and handlers invoked so far
    saved,               \* the totals row last written by save_data_to_file
    applied,             \* history: event_data of every update_table call, in order
    received,            \* history: what the lines delivered so far amount to
    cleared,             \* history: the update_table calls the last reset_table overlapped
    fpc,                 \* main thread: "idle", or inside which handler
    fk                   \* main thread: index of the total reset_table zeroes next

vars == <<totals, lastRow, totalsRow, fixation, struggle,
          session_start_time, timer_running, flush_active, free_reward_enabled,
          habituation_enabled, axis, wire, rpc, rk, tmp, line, event_data,
          inputs, saved, applied, received, cleared, fpc, fk>>

(* ------------------------------ bounds -------------------------------- *)
\* inputs explored: lines the device delivers plus buttons the operator presses
MaxInputs == 2
\* distinct values time.time() may return
MaxClock == 2

(* --------------------------- program constants ------------------------ *)
\* the six keys of totals, in dict insertion order (line 23) = column order (line 310)
Metrics == <<"time", "fix", "escape", "timeup", "struggle", "reward">>
NMetrics == Len(Metrics)
\* Python's None; a value v that may be None is held as <<v>>
None == <<>>
Some(v) == <<v>>

(* ------------------------------- text --------------------------------- *)
\* str(n) of an int
Str(n) == <<"int", n>>
\* str(x) of a float x (shortest repr, which determines x)
Repr(x) == <<"float", x>>
\* f"{x:.1f}": x sixteenths rounded to tenths, ties to even
Fmt1(x) ==
    LET q == (10 * x) \div 16
        r == (10 * x) % 16
    IN  <<"f1", IF r < 8 THEN q
                ELSE IF r > 8 THEN q + 1
                ELSE IF q % 2 = 0 THEN q ELSE q + 1>>

\* float(word), in sixteenths; a word outside the table raises ValueError
FloatTab == [w \in {"0", "1", "2", "1.5", "0.0625", "-1"} |->
               CASE w = "0" -> 0
                 [] w = "1" -> 16
                 [] w = "2" -> 32
                 [] w = "1.5" -> 24
                 [] w = "0.0625" -> 1
                 [] w = "-1" -> -16]
\* int(word): int() accepts no decimal point
IntTab == [w \in {"0", "1", "2", "-1"} |->
               CASE w = "0" -> 0
                 [] w = "1" -> 1
                 [] w = "2" -> 2
                 [] w = "-1" -> -1]
\* float(s) / int(s) of a text s: Some(value) when s is one numeric word (blanks
\* around it are stripped), None when the call raises ValueError
ParseFloat(s) ==
    IF Len(s) = 1 /\ s[1] \in DOMAIN FloatTab THEN Some(FloatTab[s[1]]) ELSE None
ParseInt(s) ==
    IF Len(s) = 1 /\ s[1] \in DOMAIN IntTab THEN Some(IntTab[s[1]]) ELSE None

\* phrase in text
Contains(s, phrase) ==
    \E i \in 1..(Len(s) - Len(phrase) + 1) :
        SubSeq(s, i, i + Len(phrase) - 1) = phrase

\* text.split(",")
RECURSIVE SplitFrom(_, _, _)
SplitFrom(s, i, cur) ==
    IF i > Len(s) THEN <<cur>>
    ELSE IF s[i] = "," THEN <<cur>> \o SplitFrom(s, i + 1, <<>>)
    ELSE SplitFrom(s, i + 1, Append(cur, s[i]))
Split(s) == SplitFrom(s, 1, <<>>)

\* text.startswith("EVENT,")
StartsWithEvent(s) == Len(s) >= 2 /\ s[1] = "EVENT" /\ s[2] = ","

(* ------------------------- lines from the device ---------------------- *)
\* "EVENT,<t>,<f>,<e>,<u>,<s>,<r>" with one word per field
TrialLine(t, f, e, u, s, r) ==
    <<"EVENT", ",", t, ",", f, ",", e, ",", u, ",", s, ",", r>>

\* lines that parse as a trial
TrialLines ==
    { TrialLine("1.5", "1", "0", "0", "0", "1"),
      TrialLine("2", "0", "1", "0", "1", "0"),
      TrialLine("0.0625", "1", "0", "1", "0", "2"),
      TrialLine("-1", "-1", "0", "0", "0", "0") }

\* lines with the EVENT, prefix that do not parse as a trial
BadEventLines ==
    { <<"EVENT", ",", "1", ",", "2">>,
      TrialLine("abc", "1", "0", "0", "0", "1"),
      TrialLine("1.5", "1", "0", "0", "0", "1.5"),
      <<"EVENT", ",", "1", ",", "Fixation", "Engaged">>,
      <<"EVENT", ",", "1", ",", "1", ",", "0", ",", "0", ",", "0", ",",
        "1", "Struggle", "YES">> }

\* free-text status lines
StatusLines ==
    { <<"Fixation", "Engaged">>, <<"Fixation", "Released">>,
      <<"Escape", "Event">>, <<"Time-Up", "Release">>,
      <<"Struggle", "YES">>, <<"Struggle", "NO">>, <<"Reward", "Given">>,
      <<"Fixation", "Engaged", "and", "Struggle", "YES">>,
      <<"Time-Up", "Release", "Fixation", "Released">>,
      <<"Struggle", "NO", "Struggle", "YES">>,
      <<"hello">> }

\* what ser.readline().decode().strip() may return; <<>> is a read timeout
Lines == TrialLines \cup BadEventLines \cup StatusLines \cup {<<>>}

(* ------------------------------ state --------------------------------- *)
ZeroTotals == [m \in {Metrics[i] : i \in 1..NMetrics} |-> 0]
ZeroRow == [i \in 1..NMetrics |-> Str(0)]

Init ==
    /\ totals = ZeroTotals
    /\ lastRow = ZeroRow
    /\ totalsRow = ZeroRow
    /\ fixation = "INACTIVE"
    /\ struggle = "NO"
    /\ session_start_time = None
    /\ timer_running = FALSE
    /\ flush_active = FALSE
    /\ free_reward_enabled = TRUE
    /\ habituation_enabled = FALSE
    /\ axis = [a \in {"Forward", "Backward", "Upward", "Downward"} |-> FALSE]
    /\ wire = <<>>
    /\ rpc = "read"
    /\ rk = 0
    /\ tmp = 0
    /\ line = <<>>
    /\ event_data = <<>>
    /\ inputs = 0
    /\ saved = None
    /\ applied = <<>>
    /\ received = [fixation |-> "INACTIVE", struggle |-> "NO", skipped |-> FALSE]
    /\ cleared = [lo |-> 0, hi |-> 0]
    /\ fpc = "idle"
    /\ fk = 0

\* variable groups, for UNCHANGED
status == <<fixation, struggle>>
session == <<session_start_time, timer_running>>
toggles == <<flush_active, free_reward_enabled, habituation_enabled, axis>>
table == <<totals, lastRow, totalsRow>>
reader == <<rpc, rk, tmp, line, event_data, applied, received>>
fore == <<fpc, fk, cleared, saved>>

(* --------------------- reader thread: update_serial ------------------- *)
\* lines 158-169: the fixation label after the if/elif chain on the line
FixationAfter(l, old) ==
    IF Contains(l, <<"Fixation", "Engaged">>) THEN "ACTIVE"
    ELSE IF Contains(l, <<"Fixation", "Released">>) THEN "INACTIVE"
    ELSE IF Contains(l, <<"Escape", "Event">>) THEN "ESCAPE"
    ELSE IF Contains(l, <<"Time-Up", "Release">>) THEN "TIME UP"
    ELSE old

\* lines 171-175: the struggle label after the if/elif on the line
StruggleAfter(l, old) ==
    IF Contains(l, <<"Struggle", "YES">>) THEN "YES"
    ELSE IF Contains(l, <<"Struggle", "NO">>) THEN "NO"
    ELSE old

\* lines 151-154: the six conversions, None when one of them raises
ParseEvent(parts) ==
    LET t == ParseFloat(parts[2])
        n == [i \in 3..7 |-> ParseInt(parts[i])]
    IN  IF t = None \/ \E i \in 3..7 : n[i] = None THEN None
        ELSE Some(<<t[1], n[3][1], n[4][1], n[5][1], n[6][1], n[7][1]>>)

\* lines 148-150: does the line reach the conversions of lines 151-154
IsEventLine(l) == StartsWithEvent(l) /\ Len(Split(l)) = 7

\* history: received once the line l has been delivered.  fixation and struggle
\* are the statuses named by the last status lines (lines without the EVENT,
\* prefix) that held a phrase of the group; skipped says that some iteration
\* of the loop ended early, at the continue of line 145 or in the except of
\* line 180
Heard(l) ==
    [fixation |-> IF StartsWithEvent(l) THEN received.fixation
                  ELSE FixationAfter(l, received.fixation),
     struggle |-> IF StartsWithEvent(l) THEN received.struggle
                  ELSE StruggleAfter(l, received.struggle),
     skipped  |-> \/ received.skipped
                  \/ l = <<>>
                  \/ (IsEventLine(l) /\ ParseEvent(Split(l)) = None)]

\* lines 141-155: one readline() and the classification of what it returned
ReadLine(l) ==
    /\ rpc = "read"
    /\ inputs' = inputs + 1
    /\ UNCHANGED <<table, status, session, toggles, wire, rk, tmp,
                   applied, fore>>
    /\ IF l = <<>>
       THEN \* line 144: nothing read before the timeout
            UNCHANGED <<rpc, line, event_data>>
       ELSE IF IsEventLine(l)
       THEN IF ParseEvent(Split(l)) = None
            THEN \* ValueError, caught at line 180: the rest of the body is skipped
                 UNCHANGED <<rpc, line, event_data>>
            ELSE /\ rpc' = "row"
                 /\ line' = l
                 /\ event_data' = ParseEvent(Split(l))[1]
       ELSE /\ rpc' = "status"
            /\ line' = l
            /\ UNCHANGED event_data
    /\ received' = Heard(l)

\* readline() outside any try: the exception ends the thread
ReadErrorEndsThread ==
    /\ rpc = "read"
    /\ inputs' = inputs + 1
    /\ rpc' = "ended"
    /\ received' = [received EXCEPT !.skipped = TRUE]
    /\ UNCHANGED <<table, status, session, toggles, wire, rk, tmp,
                   line, event_data, applied, fore>>

\* lines 142-143, 180-181: readline() or decode raises; the loop goes on
ReadError ==
    /\ rpc = "read"
    /\ inputs' = inputs + 1
    /\ received' = [received EXCEPT !.skipped = TRUE]
    /\ UNCHANGED <<table, status, session, toggles, wire, rpc, rk, tmp,
                   line, event_data, applied, fore>>

\* lines 83-85: update_table writes the last-trial row
UpdateRow ==
    /\ rpc = "row"
    /\ lastRow' = [i \in 1..NMetrics |->
                     IF i = 1 THEN Repr(event_data[i]) ELSE Str(event_data[i])]
    /\ applied' = Append(applied, event_data)
    /\ rpc' = "load"
    /\ rk' = 1
    /\ UNCHANGED <<totals, totalsRow, status, session, toggles, wire, tmp,
                   line, event_data, inputs, received, fore>>

\* a plain assignment where += was meant
AddAssigns(old, v) == v

\* lines 87-92: the value totals[k] += v stores, given the value it loaded
Add(old, v) == old + v

\* lines 87-92, first half of totals[k] += v: the current value is loaded
LoadTotal ==
    /\ rpc = "load"
    /\ tmp' = totals[Metrics[rk]]
    /\ rpc' = "store"
    /\ UNCHANGED <<table, status, session, toggles, wire, rk, line,
                   event_data, inputs, applied, received, fore>>

\* lines 87-92, second half of totals[k] += v: the sum is stored
StoreTotal ==
    /\ rpc = "store"
    /\ totals' = [totals EXCEPT ![Metrics[rk]] = Add(tmp, event_data[rk])]
    /\ tmp' = 0
    /\ IF rk < NMetrics
       THEN rpc' = "load" /\ rk' = rk + 1
       ELSE rpc' = "show" /\ rk' = 1
    /\ UNCHANGED <<lastRow, totalsRow, status, session, toggles, wire,
                   line, event_data, inputs, applied, received, fore>>

\* lines 94-99: one label of the totals row is rewritten from totals
ShowTotal ==
    /\ rpc = "show"
    /\ totalsRow' = [totalsRow EXCEPT ![rk] =
                        IF rk = 1 THEN Fmt1(totals[Metrics[rk]])
                        ELSE Str(totals[Metrics[rk]])]
    /\ IF rk < NMetrics
       THEN rpc' = "show" /\ rk' = rk + 1
       ELSE rpc' = "status" /\ rk' = 0
    /\ UNCHANGED <<totals, lastRow, status, session, toggles, wire, tmp,
                   line, event_data, inputs, applied, received, fore>>

\* one if/elif chain across both groups: the struggle phrases are looked at
\* only when no fixation phrase matched
StatusOneChain ==
    /\ rpc = "status"
    /\ fixation' = FixationAfter(line, fixation)
    /\ struggle' = IF FixationAfter(line, "none") # "none" THEN struggle
                   ELSE StruggleAfter(line, struggle)
    /\ rpc' = "read"
    /\ line' = <<>>
    /\ event_data' = <<>>
    /\ UNCHANGED <<table, session, toggles, wire, rk, tmp, inputs, applied, received, fore>>

\* a line with Reward Given is also counted in totals["reward"]
StatusCountsReward ==
    /\ rpc = "status"
    /\ fixation' = FixationAfter(line, fixation)
    /\ struggle' = StruggleAfter(line, struggle)
    /\ totals' = IF Contains(line, <<"Reward", "Given">>)
                 THEN [totals EXCEPT !["reward"] = @ + 1] ELSE totals
    /\ rpc' = "read"
    /\ line' = <<>>
    /\ event_data' = <<>>
    /\ UNCHANGED <<lastRow, totalsRow, session, toggles, wire, rk, tmp, inputs,
                   applied, received, fore>>

\* lines 157-178: the status checks on the line, then back to readline()
Status ==
    /\ rpc = "status"
    /\ fixation' = FixationAfter(line, fixation)
    /\ struggle' = StruggleAfter(line, struggle)
    /\ rpc' = "read"
    /\ line' = <<>>
    /\ event_data' = <<>>
    /\ UNCHANGED <<table, session, toggles, wire, rk, tmp, inputs, applied, received, fore>>

\* the steps of update_table
UpdateTable == UpdateRow \/ LoadTotal \/ StoreTotal \/ ShowTotal

(* ----------------- main thread: reset_table, save_data_to_file -------- *)
\* update_table calls whose six additions are complete
Added == Len(applied) - (IF rpc \in {"load", "store"} THEN 1 ELSE 0)

\* range(1, 2) for range(1, 3): only the totals row is set to "0"
ClearRowsTotalsOnly ==
    /\ fpc = "idle"
    /\ totalsRow' = ZeroRow
    /\ fpc' = "zero"
    /\ fk' = 1
    /\ inputs' = inputs + 1
    /\ cleared' = [cleared EXCEPT !.lo = Added]
    /\ UNCHANGED <<totals, lastRow, status, session, toggles, wire,
                   reader, saved>>

\* lines 325-327: both data rows of the table are set to "0"
ClearRows ==
    /\ fpc = "idle"
    /\ lastRow' = ZeroRow
    /\ totalsRow' = ZeroRow
    /\ fpc' = "zero"
    /\ fk' = 1
    /\ inputs' = inputs + 1
    /\ cleared' = [cleared EXCEPT !.lo = Added]
    /\ UNCHANGED <<totals, status, session, toggles, wire, reader, saved>>

\* line 328, one iteration of for k in totals: totals[k] = 0
ClearTotal ==
    /\ fpc = "zero"
    /\ totals' = [totals EXCEPT ![Metrics[fk]] = 0]
    /\ IF fk < NMetrics
       THEN /\ fk' = fk + 1
            /\ UNCHANGED <<fpc, cleared>>
       ELSE /\ fk' = 0
            /\ fpc' = "idle"
            /\ cleared' = [cleared EXCEPT !.hi = Len(applied)]
    /\ UNCHANGED <<lastRow, totalsRow, status, session, toggles, wire, reader,
                   inputs, saved>>

\* the steps of reset_table
reset_table == ClearRows \/ ClearTotal

\* lines 103-112: save_data_to_file calls asksaveasfilename, a modal dialog;
\* the handler, and with it the main thread, stays there until it is closed
AskSaveAs ==
    /\ fpc = "idle"
    /\ fpc' = "dialog"
    /\ inputs' = inputs + 1
    /\ UNCHANGED <<table, status, session, toggles, wire, reader, fk, cleared,
                   saved>>

\* lines 113-127: the dialog returns.  With no path the handler returns at
\* line 114; with one, the totals row, as the table shows it, goes to the file
WriteFile(chosen) ==
    /\ fpc = "dialog"
    /\ fpc' = "idle"
    /\ saved' = IF chosen THEN totalsRow ELSE saved
    /\ UNCHANGED <<table, status, session, toggles, wire, reader, fk, cleared,
                   inputs>>

\* the steps of save_data_to_file
SaveData == AskSaveAs \/ \E chosen \in BOOLEAN : WriteFile(chosen)

(* ------------------- main thread: command handlers -------------------- *)
\* ser.write(data): one call, with the whole of data.  In every handler ok
\* says whether that call returns (TRUE) or raises (FALSE); the statements a
\* handler runs before the call do not depend on it.
Write(data) == wire' = Append(wire, data)

\* lines 35-40
toggle_flush(ok) ==
    /\ fpc = "idle"
    /\ inputs' = inputs + 1
    /\ flush_active' = ~flush_active
    /\ Write(IF flush_active' THEN <<"W">> ELSE <<"w">>)
    /\ UNCHANGED <<table, status, session, free_reward_enabled,
                   habituation_enabled, axis, reader, fore>>

\* lines 43-47
toggle_free_reward(ok) ==
    /\ fpc = "idle"
    /\ inputs' = inputs + 1
    /\ free_reward_enabled' = ~free_reward_enabled
    /\ Write(IF free_reward_enabled' THEN <<"M1">> ELSE <<"M0">>)
    /\ UNCHANGED <<table, status, session, flush_active, habituation_enabled,
                   axis, reader, fore>>

\* lines 50-54
toggle_habituation(ok) ==
    /\ fpc = "idle"
    /\ inputs' = inputs + 1
    /\ habituation_enabled' = ~habituation_enabled
    /\ Write(IF habituation_enabled' THEN <<"H1">> ELSE <<"H0">>)
    /\ UNCHANGED <<table, status, session, flush_active, free_reward_enabled,
                   axis, reader, fore>>

\* lines 272-279: the start byte each spout button passes to toggle_button
AxisByte == [Forward |-> "F", Backward |-> "B", Upward |-> "U", Downward |-> "D"]
Axes == DOMAIN AxisByte

\* starting one axis clears the flags of the other three
toggle_buttonExclusive(a, ok) ==
    /\ fpc = "idle"
    /\ inputs' = inputs + 1
    /\ axis' = [b \in Axes |-> IF b = a THEN ~axis[a] ELSE axis[b] /\ axis[a]]
    /\ Write(IF axis'[a] THEN <<AxisByte[a]>> ELSE <<"S">>)
    /\ UNCHANGED <<table, status, session, flush_active, free_reward_enabled,
                   habituation_enabled, reader, fore>>

\* lines 57-61, called with command_on = AxisByte[a] and command_off = b'S'
toggle_button(a, ok) ==
    /\ fpc = "idle"
    /\ inputs' = inputs + 1
    /\ axis' = [axis EXCEPT ![a] = ~axis[a]]
    /\ Write(IF axis'[a] THEN <<AxisByte[a]>> ELSE <<"S">>)
    /\ UNCHANGED <<table, status, session, flush_active, free_reward_enabled,
                   habituation_enabled, reader, fore>>

\* lines 75-79: command byte, label and multiplier of each parameter
Params ==
    [Threshold    |-> [cmd |-> "T", label |-> "Struggle Threshold", mult |-> 1],
     FixDuration  |-> [cmd |-> "X", label |-> "Fix Duration", mult |-> 1000],
     FixDelay     |-> [cmd |-> "Y", label |-> "Fix Delay", mult |-> 1000],
     EscapeBuffer |-> [cmd |-> "Z", label |-> "Escape Buffer", mult |-> 1],
     RewardBuffer |-> [cmd |-> "Q", label |-> "Reward Buffer", mult |-> 1]]
Kinds == DOMAIN Params

\* int(x) of a float x = n/d: truncation toward zero
Trunc(n, d) == IF n >= 0 THEN n \div d ELSE -((-n) \div d)

\* int(val)*multiplier: truncated before it is scaled
PayloadTruncatesFirst(val, mult) == Trunc(val, 16) * mult

\* line 69: int(val*multiplier), val in sixteenths
Payload(val, mult) == Trunc(val * mult, 16)

\* the command letter and the value go out in two ser.write calls
send_valueTwoWrites(kind, text, ok) ==
    /\ fpc = "idle"
    /\ inputs' = inputs + 1
    /\ IF ParseFloat(text) = None
       THEN UNCHANGED wire
       ELSE LET val == ParseFloat(text)[1] IN
            wire' = wire \o << <<Params[kind].cmd>>,
                               <<Payload(val, Params[kind].mult), "\n">> >>
    /\ UNCHANGED <<table, status, session, toggles, reader, fore>>

\* lines 65-72, with entry.get() returning text
send_value(kind, text, ok) ==
    /\ fpc = "idle"
    /\ inputs' = inputs + 1
    /\ IF ParseFloat(text) = None
       THEN \* lines 71-72: ValueError, nothing is written
            UNCHANGED wire
       ELSE LET val == ParseFloat(text)[1] IN
            Write(<<Params[kind].cmd, Payload(val, Params[kind].mult), "\n">>)
    /\ UNCHANGED <<table, status, session, toggles, reader, fore>>

\* lines 334-336
send_level(level, ok) ==
    /\ fpc = "idle"
    /\ inputs' = inputs + 1
    /\ Write(<<"L", level, "\n">>)
    /\ UNCHANGED <<table, status, session, toggles, reader, fore>>

\* lines 184-189, with time.time() returning now
start_session(now, ok) ==
    /\ fpc = "idle"
    /\ inputs' = inputs + 1
    /\ session_start_time' = Some(now)
    /\ timer_running' = TRUE
    /\ Write(<<"b">>)
    /\ UNCHANGED <<table, status, toggles, reader, fore>>

\* stop_session that also calls reset_table
stop_sessionClearsTable(ok) ==
    /\ fpc = "idle"
    /\ inputs' = inputs + 1
    /\ timer_running' = FALSE
    /\ Write(<<"c">>)
    /\ totals' = ZeroTotals
    /\ lastRow' = ZeroRow
    /\ totalsRow' = ZeroRow
    /\ UNCHANGED <<status, session_start_time, toggles, reader, fore>>

\* lines 192-196
stop_session(ok) ==
    /\ fpc = "idle"
    /\ inputs' = inputs + 1
    /\ timer_running' = FALSE
    /\ Write(<<"c">>)
    /\ UNCHANGED <<table, status, session_start_time, toggles, reader, fore>>

\* lines 262-263: the lambda of emergency_button
emergency_release(ok) ==
    /\ fpc = "idle"
    /\ inputs' = inputs + 1
    /\ Write(<<"j">>)
    /\ UNCHANGED <<table, status, session, toggles, reader, fore>>

(* ------------------------------ inputs -------------------------------- *)
\* what the operator may have typed in a parameter entry
EntryTexts == {<<"1.5">>, <<"0.0625">>, <<"-1">>, <<"abc">>}
\* arguments of send_level(level): the function takes any integer; the five
\* buttons of lines 338-340 pass 1..5
Levels == 0..6
\* values of time.time()
Clock == 1..MaxClock

(* --------------------------- specification ---------------------------- *)
\* another line may arrive, or another button be pressed
Budget == inputs < MaxInputs

\* the daemon thread of line 200
Reader ==
    \/ Budget /\ \E l \in Lines : ReadLine(l)
    \/ Budget /\ ReadError
    \/ UpdateTable
    \/ Status

\* the Clear Table and Save Data buttons
Table ==
    \/ (fpc = "idle" => Budget) /\ SaveData
    \/ (fpc = "idle" => Budget) /\ reset_table

\* the buttons and checkboxes that send a command
Commands ==
    \/ Budget /\ \E ok \in BOOLEAN : toggle_flush(ok)
    \/ Budget /\ \E ok \in BOOLEAN : toggle_free_reward(ok)
    \/ Budget /\ \E ok \in BOOLEAN : toggle_habituation(ok)
    \/ Budget /\ \E ok \in BOOLEAN, a \in Axes : toggle_button(a, ok)
    \/ Budget /\ \E ok \in BOOLEAN, k \in Kinds, text \in EntryTexts :
                     send_value(k, text, ok)
    \/ Budget /\ \E ok \in BOOLEAN, level \in Levels : send_level(level, ok)
    \/ Budget /\ \E ok \in BOOLEAN, now \in Clock : start_session(now, ok)
    \/ Budget /\ \E ok \in BOOLEAN : stop_session(ok)
    \/ Budget /\ \E ok \in BOOLEAN : emergency_release(ok)

Next == Reader \/ Table \/ Commands

Spec == Init /\ [][Next]_vars

(* ========================= properties ================================= *)
\* sum of metric i over the update_table calls numbered lo..hi
RECURSIVE SumRange(_, _, _)
SumRange(i, lo, hi) ==
    IF lo > hi THEN 0 ELSE applied[lo][i] + SumRange(i, lo + 1, hi)

\* sum of metric i over the update_table calls whose numbers are in S
RECURSIVE SumSet(_, _)
SumSet(i, S) ==
    IF S = {} THEN 0
    ELSE LET j == CHOOSE x \in S : TRUE IN applied[j][i] + SumSet(i, S \ {j})

\* the number a label text shows
Shown(text) == text[2]

\* no addition of update_table is pending and reset_table is not running
Quiet == fpc = "idle" /\ rpc \notin {"load", "store"}

\* the last reset_table (if any) overlapped no update_table call
CleanClear == cleared.lo = cleared.hi

\* C1: with no clear in between (the last clear, if any, was over before the
\* first of the lines was applied), once the reader has applied N trial lines
\* every total is the sum of that metric over the N lines and the last-trial
\* row shows the six fields of the N-th line.
C1_TotalsAreSums ==
    (Quiet /\ CleanClear) =>
        /\ \A i \in 1..NMetrics :
              totals[Metrics[i]] = SumRange(i, cleared.hi + 1, Len(applied))
        /\ Len(applied) > cleared.hi =>
              \A i \in 1..NMetrics : Shown(lastRow[i]) = applied[Len(applied)][i]

\* two different trial lines have been applied, with no clear, and the reader
\* is back at readline()
C1_Witness ==
    /\ Quiet /\ rpc = "read"
    /\ cleared = [lo |-> 0, hi |-> 0]
    /\ Len(applied) = 2
    /\ applied[1] # applied[2]
    /\ totals["time"] = applied[1][1] + applied[2][1]

\* the totals row as the table shows it once j trials are added (never cleared)
RowOfPrefix(j) ==
    IF j = 0 THEN ZeroRow
    ELSE [i \in 1..NMetrics |->
            IF i = 1 THEN Fmt1(SumRange(i, 1, j)) ELSE Str(SumRange(i, 1, j))]

\* C2: while the reader applies trials and nothing is cleared, every snapshot of
\* the six totals (the dict at any moment, and the totals row a save reads)
\* is the per-metric sum of some prefix of the applied trials.
C2_SnapshotsArePrefixSums ==
    (fpc = "idle" /\ cleared = [lo |-> 0, hi |-> 0]) =>
        /\ \E j \in 0..Len(applied) :
              \A i \in 1..NMetrics : totals[Metrics[i]] = SumRange(i, 1, j)
        /\ saved # None => \E j \in 0..Len(applied) : saved = RowOfPrefix(j)

\* C3: whenever no addition is pending and no clear is running, the totals are
\* the sums of the trials applied after the last clear, where each trial whose
\* application overlapped that clear counts wholly or not at all.
C3_TotalsSinceLastClear ==
    Quiet =>
        \E S \in SUBSET ((cleared.lo + 1)..cleared.hi) :
            \A i \in 1..NMetrics :
                totals[Metrics[i]] =
                    SumSet(i, S) + SumRange(i, cleared.hi + 1, Len(applied))

\* C4: no step of reset_table changes the fixation or struggle status, the
\* session start time, the timer flag or what was written to the port; and
\* when reset_table returns, no update_table call having overlapped it, all
\* six totals are 0 and all six labels of the last-trial row read "0".
C4_ClearZeroesTable ==
    [][ /\ reset_table => UNCHANGED <<status, session, wire>>
        /\ (ClearTotal /\ fpc' = "idle" /\ cleared'.lo = cleared'.hi) =>
              (totals' = ZeroTotals /\ lastRow' = ZeroRow) ]_vars

\* a clear has returned after a trial was applied, with no overlap
C4_Witness ==
    /\ fpc = "idle"
    /\ cleared.lo = cleared.hi /\ cleared.hi >= 1
    /\ applied[1][1] # 0
    /\ totals = ZeroTotals /\ lastRow = ZeroRow

\* entry text that is not a number, or is a negative one
Invalid(text) == ParseFloat(text) = None \/ ParseFloat(text)[1] < 0

\* C5: send_value called with a negative number, or with text that is no
\* number, writes nothing to the port.
C5_InvalidInputWritesNothing ==
    [][ \A k \in Kinds, text \in EntryTexts, ok \in BOOLEAN :
            (send_value(k, text, ok) /\ Invalid(text)) => wire' = wire ]_vars

\* the letter and the scale the protocol fixes for each parameter
Letter ==
    [Threshold |-> "T", FixDuration |-> "X", FixDelay |-> "Y",
     EscapeBuffer |-> "Z", RewardBuffer |-> "Q"]
Scale ==
    [Threshold |-> 1, FixDuration |-> 1000, FixDelay |-> 1000,
     EscapeBuffer |-> 1, RewardBuffer |-> 1]

\* C6: for every parameter kind and every non-negative number v, send_value
\* makes exactly one write: the kind's letter, then v times the kind's scale
\* (1000 for fix duration and fix delay, 1 otherwise) truncated to an integer,
\* then a newline.
C6_ParameterBytes ==
    [][ \A text \in {t \in EntryTexts : ~Invalid(t)}, k \in Kinds :
            (\E ok \in BOOLEAN : send_value(k, text, ok)) =>
                wire' = Append(wire, <<Letter[k],
                                       (ParseFloat(text)[1] * Scale[k]) \div 16,
                                       "\n">>) ]_vars

\* 1.5 was sent as a threshold or a buffer (written as 1), then 0.0625 s as a
\* fix duration (62.5 ms, written as 62)
C6_Witness ==
    /\ Len(wire) = 2
    /\ wire[1] \in {<<"T", 1, "\n">>, <<"Z", 1, "\n">>, <<"Q", 1, "\n">>}
    /\ wire[2] = <<"X", 62, "\n">>

\* C7: send_level(n) writes "L<n>\n" in one write for n in 1..5, and writes
\* nothing for any other n.
C7_LevelBytes ==
    [][ \A level \in Levels, ok \in BOOLEAN :
            send_level(level, ok) =>
                wire' = IF level \in 1..5 THEN Append(wire, <<"L", level, "\n">>)
                        ELSE wire ]_vars

\* C8: start_session writes exactly b, sets timer_running and sets
\* session_start_time to a timestamp; stop_session writes exactly c, resets
\* timer_running and changes no total and no label of the last-trial row.
C8_SessionCommands ==
    [][ /\ \A now \in Clock, ok \in BOOLEAN :
              start_session(now, ok) =>
                  /\ wire' = Append(wire, <<"b">>)
                  /\ timer_running' = TRUE
                  /\ session_start_time' # None
        /\ \A ok \in BOOLEAN :
              stop_session(ok) =>
                  /\ wire' = Append(wire, <<"c">>)
                  /\ timer_running' = FALSE
                  /\ UNCHANGED <<totals, lastRow>> ]_vars

\* a session was stopped after a trial had been added to the totals
C8_Witness ==
    /\ Len(wire) >= 1 /\ wire[Len(wire)] = <<"c">>
    /\ timer_running = FALSE
    /\ Len(applied) >= 1 /\ totals # ZeroTotals

\* C9: a session command whose write raises changes no session state.
C9_FailedWriteChangesNothing ==
    [][ /\ \A now \in Clock :
              start_session(now, FALSE) =>
                  UNCHANGED <<session_start_time, timer_running>>
        /\ stop_session(FALSE) => UNCHANGED timer_running ]_vars

\* C10: session_start_time is None whenever no session is running.
C10_NoStartTimeUnlessRunning ==
    timer_running = FALSE => session_start_time = None

\* a line with the EVENT, prefix that is no trial: its field count is not 7,
\* or one of its fields is not a number
Unrecognized(l) ==
    StartsWithEvent(l) /\ (~IsEventLine(l) \/ ParseEvent(Split(l)) = None)

\* C11: processing an EVENT, line that has not exactly 7 fields, or has a field
\* that is no number, changes no total, no label of the last-trial row, and
\* neither the fixation nor the struggle status, whatever else the line holds.
C11_UnrecognizedChangesNothing ==
    [][ /\ \A l \in {u \in Lines : Unrecognized(u)} :
              ReadLine(l) => UNCHANGED <<totals, lastRow, status>>
        /\ (Status /\ Unrecognized(line)) =>
              UNCHANGED <<totals, lastRow, status>> ]_vars

\* the phrases of each group in the order they are looked for, and the status
\* each fixation phrase names
FixationPhrases ==
    << <<"Fixation", "Engaged">>, <<"Fixation", "Released">>,
       <<"Escape", "Event">>, <<"Time-Up", "Release">> >>
FixationStatuses == <<"ACTIVE", "INACTIVE", "ESCAPE", "TIME UP">>
StrugglePhrases == << <<"Struggle", "YES">>, <<"Struggle", "NO">> >>
StruggleStatuses == <<"YES", "NO">>

\* index of the first phrase of the group that the line contains, 0 if none
FirstMatch(l, phrases) ==
    LET hits == {i \in 1..Len(phrases) : Contains(l, phrases[i])}
    IN  IF hits = {} THEN 0 ELSE CHOOSE i \in hits : \A j \in hits : i <= j

\* C12: the status checks on a line treat the two groups independently: the
\* fixation status becomes the one named by the first fixation phrase the line
\* contains (order: Fixation Engaged, Fixation Released, Escape Event, Time-Up
\* Release) and, whether or not a fixation phrase matched, the struggle status
\* becomes YES if the line contains Struggle YES, else NO if it contains
\* Struggle NO; a group with no phrase in the line keeps its status.
C12_StatusGroupsIndependent ==
    [][ Status =>
          LET f == FirstMatch(line, FixationPhrases)
              s == FirstMatch(line, StrugglePhrases)
          IN  /\ fixation' = IF f = 0 THEN fixation ELSE FixationStatuses[f]
              /\ struggle' = IF s = 0 THEN struggle ELSE StruggleStatuses[s] ]_vars

\* the only line read so far set both statuses: it held a fixation phrase and
\* a struggle phrase
C12_Witness ==
    /\ inputs = 1 /\ rpc = "read"
    /\ fixation = "ACTIVE" /\ struggle = "YES"

SkippedLines ==
    {l \in Lines : l = <<>> \/ (IsEventLine(l) /\ ParseEvent(Split(l)) = None)}
Skip == ReadError \/ \E l \in SkippedLines : ReadLine(l)

\* the positions of the reader inside the body of while True (lines 141-181)
LoopPositions == {"read", "row", "load", "store", "show", "status"}

\* C14: no step takes the reader out of its loop.  An iteration that ends
\* early (timeout, read error, exception while decoding) leaves the reader at
\* readline(), where the next line is read, decoded and applied like any
\* other.  A read timeout changes no total, label, flag or start time and
\* writes nothing.
C14_ReaderKeepsReading ==
    [][ /\ rpc' \in LoopPositions
        /\ Skip => rpc' = "read"
        /\ ReadLine(<<>>) =>
              UNCHANGED <<table, status, session, toggles, wire>> ]_vars

\* after an iteration that ended early, the next line was a trial and is being
\* applied: its six fields are added and the totals row is being rewritten
C14_Witness ==
    /\ received.skipped
    /\ inputs = 2
    /\ rpc = "show"
    /\ Len(applied) = 1 /\ totals["reward"] = applied[1][6]

\* the complete byte sequence of some command of the protocol
IsCommand(w) ==
    IF Len(w) = 1
    THEN w[1] \in {"W", "w", "M1", "M0", "H1", "H0", "F", "B", "U", "D", "S",
                   "b", "c", "j"}
    ELSE /\ Len(w) = 3
         /\ w[1] \in {"T", "X", "Y", "Z", "Q", "L"}
         /\ w[2] \in Int
         /\ w[3] = "\n"

\* a handler that sends a command runs, other than send_value on text that is
\* no number
Accepted ==
    \/ \E ok \in BOOLEAN :
          \/ toggle_flush(ok) \/ toggle_free_reward(ok) \/ toggle_habituation(ok)
          \/ stop_session(ok) \/ emergency_release(ok)
          \/ \E a \in Axes : toggle_button(a, ok)
          \/ \E level \in Levels : send_level(level, ok)
          \/ \E now \in Clock : start_session(now, ok)
    \/ \E text \in {t \in EntryTexts : ParseFloat(t) # None}, k \in Kinds,
          ok \in BOOLEAN : send_value(k, text, ok)

\* the step appends one write, the complete byte sequence of a command, to
\* those made before
OneWholeCommand ==
    /\ Len(wire') = Len(wire) + 1
    /\ SubSeq(wire', 1, Len(wire)) = wire
    /\ IsCommand(wire'[Len(wire')])

\* C15: every accepted command makes exactly one ser.write call, with the
\* complete byte sequence of a command (so a step that does anything else is
\* no accepted command); a step that changes what was written appends one
\* complete command after those written before, and it is no step of the
\* reader thread.
C15_OneWritePerCommand ==
    [][ /\ ~OneWholeCommand => ~Accepted
        /\ wire' # wire =>
              /\ OneWholeCommand
              /\ UNCHANGED <<rpc, rk, tmp, line, event_data, applied, received>>
              /\ ~Reader ]_vars

\* a session was started and a fix duration of 1.5 s set: two writes, each a
\* whole command
C15_Witness ==
    wire = << <<"b">>, <<"X", 1500, "\n">> >>

\* C16: in every reachable state, whatever the flags, the session and the
\* position of the reader are, the emergency button's callback can run; and
\* when it runs it appends the one write j to what was written and changes no
\* total, label, status, flag or session variable.
C16_EmergencyAlwaysWritesJ ==
    [][ /\ ENABLED emergency_release(TRUE)
        /\ \A ok \in BOOLEAN :
              emergency_release(ok) =>
                  /\ wire' = Append(wire, <<"j">>)
                  /\ UNCHANGED <<table, status, session, toggles>> ]_vars

\* the start byte the protocol gives each spout axis
StartByte == [Forward |-> "F", Backward |-> "B", Upward |-> "U", Downward |-> "D"]

\* C17: a toggle of a spout axis flips that axis's flag, writes the axis's
\* start byte (F, B, U, D) if the flag is now set and S if it is now clear,
\* and leaves the flags of the other three axes as they were.  (That two
\* flags can be set at once is the reachable state C17_Witness.)
C17_AxisToggle ==
    [][ \A a \in Axes, ok \in BOOLEAN :
            toggle_button(a, ok) =>
                /\ axis'[a] = ~axis[a]
                /\ wire' = Append(wire, IF axis[a] THEN <<"S">>
                                        ELSE <<StartByte[a]>>)
                /\ \A b \in Axes \ {a} : axis'[b] = axis[b] ]_vars

\* Forward was started and then Upward, without Forward being stopped: both
\* flags are set
C17_Witness ==
    /\ wire = << <<"F">>, <<"U">> >>
    /\ axis["Forward"] /\ axis["Upward"]

\* C18: a step that changes a total or a label of the last-trial row is a
\* step of update_table or of reset_table: no line that is not a well-formed
\* trial, and no command handler, changes them; and the status checks on the
\* line Reward Given change neither the fixation nor the struggle status.
C18_OnlyTrialsAndClearTouchTotals ==
    [][ /\ (totals' # totals \/ lastRow' # lastRow) =>
              /\ UpdateTable \/ reset_table
              /\ ~Accepted
              /\ ~(ReadError \/ \E l \in Lines : ReadLine(l))
              /\ ~Status
        /\ (Status /\ line = <<"Reward", "Given">>) =>
              UNCHANGED <<totals, lastRow, status>> ]_vars

\* a trial was applied and the flush command sent; the totals and the
\* last-trial row are those of the trial
C18_Witness ==
    /\ rpc = "read" /\ fpc = "idle"
    /\ wire = << <<"W">> >>
    /\ Len(applied) = 1 /\ applied[1][2] # 0
    /\ \A i \in 1..NMetrics :
          totals[Metrics[i]] = applied[1][i] /\ Shown(lastRow[i]) = applied[1][i]

\* C19: only a step of reset_table lowers a total: no line from the device
\* and no command does.
C19_TotalsNeverDecrease ==
    [][ (\E i \in 1..NMetrics : totals'[Metrics[i]] < totals[Metrics[i]]) =>
            reset_table ]_vars

====
